---- MODULE Spec2Model ----
(***************************************************************************)
(* The tribute reward calculator of scripts/test-rewards/calculate-rewards.py *)
(* (class RewardsCalculator).  One call of calculate_all_rewards is modelled  *)
(* as a state machine: the scenario is the input, each calculator is one     *)
(* step, and the numbers are Python Decimals, i.e. decimal floating point    *)
(* values whose every arithmetic result is rounded half-even to the 28       *)
(* significant digits of the default context.                                *)
(***************************************************************************)
EXTENDS Integers, Sequences, FiniteSets, TLC

(***************************************************************************)
(* Natural numbers as little-endian sequences of decimal digits (a[1] is    *)
(* the units digit, no zero at the top): the coefficient of a Decimal.      *)
(***************************************************************************)

\* Precision of the default decimal context the module is imported with.
DecimalPrec == 28

Max(x, y) == IF x >= y THEN x ELSE y

Min(x, y) == IF x <= y THEN x ELSE y

Digit(a, i) == IF i >= 1 /\ i <= Len(a) THEN a[i] ELSE 0

RECURSIVE NatStrip(_)
NatStrip(a) ==
    IF a = <<>> THEN a
    ELSE IF a[Len(a)] = 0 THEN NatStrip(SubSeq(a, 1, Len(a) - 1))
    ELSE a

RECURSIVE NatFromInt(_)
NatFromInt(n) == IF n = 0 THEN <<>> ELSE <<n % 10>> \o NatFromInt(n \div 10)

RECURSIVE NatToInt(_)
NatToInt(a) == IF a = <<>> THEN 0 ELSE a[1] + 10 * NatToInt(Tail(a))

\* cols[i] are column values (possibly above 9); the carries are propagated.
RECURSIVE NatCarry(_, _, _)
NatCarry(cols, i, carry) ==
    IF i > Len(cols)
    THEN NatFromInt(carry)
    ELSE LET s == cols[i] + carry
         IN  <<s % 10>> \o NatCarry(cols, i + 1, s \div 10)

NatAdd(a, b) ==
    NatCarry([i \in 1..Max(Len(a), Len(b)) |-> Digit(a, i) + Digit(b, i)], 1, 0)

\* a - b for a >= b: ten's complement per column, then the borrows.
RECURSIVE NatBorrow(_, _, _, _)
NatBorrow(a, b, i, borrow) ==
    IF i > Len(a)
    THEN <<>>
    ELSE LET s == a[i] - Digit(b, i) - borrow
         IN  IF s < 0
             THEN <<s + 10>> \o NatBorrow(a, b, i + 1, 1)
             ELSE <<s>> \o NatBorrow(a, b, i + 1, 0)

NatSub(a, b) == NatStrip(NatBorrow(a, b, 1, 0))

RECURSIVE NatColumn(_, _, _, _)
NatColumn(a, b, k, i) ==
    IF i > Len(a) \/ i > k
    THEN 0
    ELSE a[i] * Digit(b, k + 1 - i) + NatColumn(a, b, k, i + 1)

NatMul(a, b) ==
    IF a = <<>> \/ b = <<>>
    THEN <<>>
    ELSE NatStrip(NatCarry([k \in 1..(Len(a) + Len(b) - 1) |->
                               NatColumn(a, b, k, Max(1, k + 1 - Len(b)))], 1, 0))

\* a * 10^n
NatShift(a, n) == IF a = <<>> THEN a ELSE [i \in 1..n |-> 0] \o a

\* -1, 0, 1 as a < b, a = b, a > b
RECURSIVE NatCmpFrom(_, _, _)
NatCmpFrom(a, b, i) ==
    IF i = 0 THEN 0
    ELSE IF a[i] < b[i] THEN -1
    ELSE IF a[i] > b[i] THEN 1
    ELSE NatCmpFrom(a, b, i - 1)

NatCmp(a, b) ==
    IF Len(a) < Len(b) THEN -1
    ELSE IF Len(a) > Len(b) THEN 1
    ELSE NatCmpFrom(a, b, Len(a))

\* number of zero digits at the low end of a non-zero a
RECURSIVE NatTrailingZeros(_, _)
NatTrailingZeros(a, i) ==
    IF i > Len(a) \/ a[i] # 0 THEN i - 1 ELSE NatTrailingZeros(a, i + 1)

(***************************************************************************)
(* Decimal values: coefficient c (digits, as above) times 10^e.  All values *)
(* of this program are non-negative.  Values are kept with the trailing     *)
(* zeros of the coefficient moved into the exponent, so that two records    *)
(* are equal exactly when the Decimals compare equal in Python.             *)
(***************************************************************************)
DecStrip(c, e, z) == [c |-> SubSeq(c, z + 1, Len(c)), e |-> e + z]

DecNorm(c, e) ==
    IF c = <<>>
    THEN [c |-> <<>>, e |-> 0]
    ELSE DecStrip(c, e, NatTrailingZeros(c, 1))

DecZero == [c |-> <<>>, e |-> 0]

\* Decimal(n) and Decimal("n") for a non-negative integer n
DecFromInt(n) == DecNorm(NatFromInt(n), 0)

\* Decimal("u.cc") for a string of u units and two decimals, given as cents
DecFromCents(n) == DecNorm(NatFromInt(n), -2)

DecOne == DecFromInt(1)

\* ROUND_HALF_EVEN: r is the first digit dropped, sticky says that a later
\* one is not zero, kept is what stays
RoundsUp(kept, r, sticky) == r > 5 \/ (r = 5 /\ (sticky \/ kept[1] % 2 = 1))

DecRoundTo(kept, r, sticky, e) ==
    DecNorm(IF RoundsUp(kept, r, sticky) THEN NatAdd(kept, <<1>>) ELSE kept, e)

DecDrop(c, e, drop) ==
    DecRoundTo(SubSeq(c, drop + 1, Len(c)), c[drop],
               \E i \in 1..(drop - 1) : c[i] # 0, e + drop)

\* The context's rounding of an exact result c * 10^e: to DecimalPrec
\* significant digits, ROUND_HALF_EVEN.
DecRound(c, e) ==
    IF Len(c) <= DecimalPrec
    THEN DecNorm(c, e)
    ELSE DecDrop(c, e, Len(c) - DecimalPrec)

DecMul(a, b) == DecRound(NatMul(a.c, b.c), a.e + b.e)

DecAdd(a, b) ==
    IF a.c = <<>> THEN b
    ELSE IF b.c = <<>> THEN a
    ELSE LET e == Min(a.e, b.e)
         IN  DecRound(NatAdd(NatShift(a.c, a.e - e), NatShift(b.c, b.e - e)), e)

\* a - b, for a >= b
DecSub(a, b) ==
    IF b.c = <<>> THEN a
    ELSE LET e == Min(a.e, b.e)
         IN  DecRound(NatSub(NatShift(a.c, a.e - e), NatShift(b.c, b.e - e)), e)

\* -1, 0, 1 as a < b, a = b, a > b
DecCmp(a, b) ==
    IF a.c = <<>> THEN (IF b.c = <<>> THEN 0 ELSE -1)
    ELSE IF b.c = <<>> THEN 1
    ELSE LET e == Min(a.e, b.e)
         IN  NatCmp(NatShift(a.c, a.e - e), NatShift(b.c, b.e - e))

DecIsZero(a) == a.c = <<>>

\* long division of the remainder r by d: up to k further quotient digits,
\* put below those of q, and the remainder left
RECURSIVE DivDigits(_, _, _, _)
DivDigits(q, r, d, k) ==
    IF r = 0 \/ k = 0
    THEN [q |-> q, r |-> r, k |-> k]
    ELSE DivDigits(<<(r * 10) \div d>> \o q, (r * 10) % d, d, k - 1)

RECURSIVE ScaleUp(_, _)
ScaleUp(n, d) == IF n >= d THEN 0 ELSE 1 + ScaleUp(n * 10, d)

RECURSIVE Pow10(_)
Pow10(k) == IF k = 0 THEN 1 ELSE 10 * Pow10(k - 1)

\* the quotient c with remainder r of a division by d, rounded half-even
DivRound(c, r, d, e) ==
    DecNorm(IF 2 * r > d \/ (2 * r = d /\ c[1] % 2 = 1)
            THEN NatAdd(c, <<1>>) ELSE c, e)

DivFraction(q0, fr, d, e) == DivRound(fr.q, fr.r, d, e - (Len(fr.q) - Len(q0)))

DivInteger(q0, r, d, e) ==
    DivFraction(q0, DivDigits(q0, r, d, DecimalPrec - Len(q0)), d, e)

DivScaled(n, d, e, k) ==
    DivInteger(NatFromInt((n * Pow10(k)) \div d), (n * Pow10(k)) % d, d, e - k)

\* a / b for b # 0: the exact quotient when it has at most DecimalPrec
\* digits, else its rounding (half-even) to DecimalPrec digits.  The operands
\* of every division of this program are sums of voting powers, whose
\* coefficients are machine integers.
DecDiv(a, b) ==
    IF a.c = <<>>
    THEN DecZero
    ELSE DivScaled(NatToInt(a.c), NatToInt(b.c), a.e - b.e,
                   ScaleUp(NatToInt(a.c), NatToInt(b.c)))

\* a faulty variant: the rounding of the context, ROUND_HALF_EVEN, used for
\* the cents as well
DecQuantizeCentsHalfEven(a) ==
    IF a.c = <<>> THEN 0
    ELSE IF a.e >= -2 THEN NatToInt(NatShift(a.c, a.e + 2))
    ELSE NatToInt(IF -2 - a.e >= Len(a.c) THEN <<>>
                  ELSE SubSeq(a.c, -1 - a.e, Len(a.c)))
         + (IF RoundsUp(<<Digit(a.c, -1 - a.e)>>, Digit(a.c, -2 - a.e),
                        \E i \in 1..(-3 - a.e) : Digit(a.c, i) # 0)
            THEN 1 ELSE 0)

\* int(x.quantize(Decimal('0.01'), rounding=ROUND_HALF_UP) * 100): the
\* number of cents the two-decimal string of x shows
DecQuantizeCents(a) ==
    IF a.c = <<>> THEN 0
    ELSE IF a.e >= -2 THEN NatToInt(NatShift(a.c, a.e + 2))
    ELSE NatToInt(IF -2 - a.e >= Len(a.c) THEN <<>>
                  ELSE SubSeq(a.c, -1 - a.e, Len(a.c)))
         + (IF Digit(a.c, -2 - a.e) >= 5 THEN 1 ELSE 0)

(***************************************************************************)
(* Python values the calculator works with.                                 *)
(***************************************************************************)

\* voted_proposal_id of a vessel that cast no vote (Python's None)
None == 0

\* the result of a call: the exception that left it ("none": it returned) and
\* the value returned
Return(v) == [exc |-> "none", val |-> v]

Raise(e) == [exc |-> e, val |-> <<>>]

\* the first exception of a sequence of calls made in order
FirstExc(calls) ==
    IF \A i \in 1..Len(calls) : calls[i].exc = "none"
    THEN "none"
    ELSE calls[CHOOSE i \in 1..Len(calls) :
                   /\ calls[i].exc # "none"
                   /\ \A j \in 1..(i - 1) : calls[j].exc = "none"].exc

RECURSIVE Concat(_)
Concat(ss) == IF ss = <<>> THEN <<>> ELSE Head(ss) \o Concat(Tail(ss))

\* a / b with the signals the default context traps on a zero divisor
Divide(a, b) ==
    IF DecIsZero(b)
    THEN Raise(IF DecIsZero(a) THEN "InvalidOperation" ELSE "DivisionByZero")
    ELSE Return(DecDiv(a, b))

\* defaultdict(Decimal): m[k] += v
DictAdd(m, k, v) ==
    [x \in (DOMAIN m) \cup {k} |->
        IF x = k
        THEN DecAdd(IF k \in DOMAIN m THEN m[k] ELSE DecZero, v)
        ELSE m[x]]

\* defaultdict(lambda: defaultdict(Decimal)): m[u][k] += v
DictAdd2(m, u, k, v) ==
    [x \in (DOMAIN m) \cup {u} |->
        IF x = u
        THEN DictAdd(IF u \in DOMAIN m THEN m[u] ELSE <<>>, k, v)
        ELSE m[x]]

\* the dict after "m[e.k] += e.v" for the entries of es, in order
RECURSIVE Accumulate(_, _)
Accumulate(m, es) ==
    IF es = <<>> THEN m
    ELSE Accumulate(DictAdd(m, Head(es).k, Head(es).v), Tail(es))

\* the dict after "m[e.u][e.k] += e.v" for the entries of es, in order
RECURSIVE Accumulate2(_, _)
Accumulate2(m, es) ==
    IF es = <<>> THEN m
    ELSE Accumulate2(DictAdd2(m, Head(es).u, Head(es).k, Head(es).v), Tail(es))

\* the distinct values of a sequence, in the order of their first occurrence
\* (the key order of a dict filled in that order)
RECURSIVE KeyOrderFrom(_, _, _)
KeyOrderFrom(s, i, keys) ==
    IF i > Len(s) THEN keys
    ELSE KeyOrderFrom(s, i + 1,
            IF \E j \in 1..Len(keys) : keys[j] = s[i] THEN keys
            ELSE Append(keys, s[i]))

KeyOrder(s) == KeyOrderFrom(s, 1, <<>>)

\* a call that raises what an earlier call raised, else returns val
RaiseOr(e, val) == IF e # "none" THEN Raise(e) ELSE Return(val)

(***************************************************************************)
(* RewardsCalculator                                                        *)
(***************************************************************************)
DecLit(n, e) == DecNorm(NatFromInt(n), e)

token_multipliers ==
    [d \in {"dATOM", "stATOM"} |->
        IF d = "dATOM" THEN DecLit(13, -1) ELSE DecLit(16, -1)]

duration_multipliers ==
    [r \in {1, 2, 3} |->
        IF r = 1 THEN DecLit(10, -1)
        ELSE IF r = 2 THEN DecLit(125, -2)
        ELSE DecLit(15, -1)]

\* a faulty variant: the duration multiplier left out
calculate_voting_power_unweighted(vessel) ==
    IF vessel.locked_denom \notin DOMAIN token_multipliers
    THEN Raise("ValueError")
    ELSE IF vessel.lock_duration_rounds \notin DOMAIN duration_multipliers
    THEN Raise("KeyError")
    ELSE Return(DecMul(DecFromInt(vessel.locked_amount),
                       token_multipliers[vessel.locked_denom]))

calculate_voting_power(vessel) ==
    IF vessel.locked_denom \notin DOMAIN token_multipliers
    THEN Raise("ValueError")
    ELSE IF vessel.lock_duration_rounds \notin DOMAIN duration_multipliers
    THEN Raise("KeyError")
    ELSE Return(DecMul(DecMul(DecFromInt(vessel.locked_amount),
                              token_multipliers[vessel.locked_denom]),
                       duration_multipliers[vessel.lock_duration_rounds]))

\* total = Decimal("0"); for vessel in vessels: total += voting power
RECURSIVE SumPowerFrom(_, _, _)
\* "total += power", unless the call that computed power raised
AddPower(vessels, i, total, power) ==
    IF power.exc # "none" THEN power
    ELSE SumPowerFrom(vessels, i + 1, DecAdd(total, power.val))

SumPowerFrom(vessels, i, total) ==
    IF i > Len(vessels)
    THEN Return(total)
    ELSE AddPower(vessels, i, total, calculate_voting_power(vessels[i]))

SumPower(vessels) == SumPowerFrom(vessels, 1, DecZero)

\* vessel.copy() with the owner's user_id added
WithUser(vessel, user_id) ==
    [id |-> vessel.id,
     lock_duration_rounds |-> vessel.lock_duration_rounds,
     locked_denom |-> vessel.locked_denom,
     locked_amount |-> vessel.locked_amount,
     controlled_by |-> vessel.controlled_by,
     voted_proposal_id |-> vessel.voted_proposal_id,
     user_id |-> user_id]

\* a faulty variant: "vessel_with_user = vessel", no copy made, so that the
\* user_id is written into the dict of the scenario
AliasWithUser(vessel, user_id) ==
    [vessel |-> WithUser(vessel, user_id),
     vessel_with_user |-> WithUser(vessel, user_id)]

\* "vessel_with_user = vessel.copy(); vessel_with_user["user_id"] = user_id":
\* the two dicts there are then; copy() makes a new one, and the assignment
\* goes to it
CopyWithUser(vessel, user_id) ==
    [vessel |-> vessel, vessel_with_user |-> WithUser(vessel, user_id)]

\* the scenario after a loop over its vessels that annotates a copy of those
\* in taken
AfterAnnotating(scenario, taken) ==
    [scenario EXCEPT !.users =
        [u \in 1..Len(scenario.users) |->
            [user_id |-> scenario.users[u].user_id,
             vessels |->
                [v \in 1..Len(scenario.users[u].vessels) |->
                    IF scenario.users[u].vessels[v] \in taken
                    THEN CopyWithUser(scenario.users[u].vessels[v],
                                      scenario.users[u].user_id).vessel
                    ELSE scenario.users[u].vessels[v]]]]]

\* "for user in scenario.users: for vessel in user.vessels", annotated
VesselsInOrder(scenario) ==
    Concat([u \in 1..Len(scenario.users) |->
              [v \in 1..Len(scenario.users[u].vessels) |->
                  WithUser(scenario.users[u].vessels[v],
                           scenario.users[u].user_id)]])

IsVoting(v) == v.voted_proposal_id # None

IsHydromancer(v) == v.controlled_by = "hydromancer"

IsUser(v) == v.controlled_by = "user"

VotingVessels(scenario) == SelectSeq(VesselsInOrder(scenario), IsVoting)

\* vessels_by_proposal[voted_proposal_id].append(vessel), over voting
GroupByProposal(voting) ==
    [pid \in {voting[i].voted_proposal_id : i \in 1..Len(voting)} |->
        SelectSeq(voting, LAMBDA v : v.voted_proposal_id = pid)]

get_vessels_by_proposal(scenario) == GroupByProposal(VotingVessels(scenario))

VotedProposals(voting) == [i \in 1..Len(voting) |-> voting[i].voted_proposal_id]

\* the keys of get_vessels_by_proposal in the order it inserted them
ProposalKeyOrder(scenario) == KeyOrder(VotedProposals(VotingVessels(scenario)))

Rate(bps) == DecDiv(DecFromInt(bps), DecFromInt(10000))

\* a faulty variant: the basis points taken for a percentage
protocol_commission_rate_percent(scenario) ==
    DecDiv(DecFromInt(scenario.protocol_config.protocol_commission_bps),
           DecFromInt(100))

protocol_commission_rate(scenario) ==
    Rate(scenario.protocol_config.protocol_commission_bps)

hydromancer_commission_rate(scenario) ==
    Rate(scenario.protocol_config.hydromancer_commission_bps)

\* tribute_amount * (Decimal("1") - protocol_commission_rate)
after_protocol_commission(scenario, tribute) ==
    DecMul(DecFromCents(tribute.amount),
           DecSub(DecOne, protocol_commission_rate(scenario)))

\* after_protocol_commission * hydromancer_share
hydromancer_tribute_share(scenario, tribute, hydromancer_share) ==
    DecMul(after_protocol_commission(scenario, tribute), hydromancer_share)

\* a faulty variant: hydromancer's commission left in what the users share
after_hydromancer_commission_kept(scenario, tribute, hydromancer_share) ==
    hydromancer_tribute_share(scenario, tribute, hydromancer_share)

\* hydromancer_tribute_share * (Decimal("1") - hydromancer_commission_rate)
after_hydromancer_commission(scenario, tribute, hydromancer_share) ==
    DecMul(hydromancer_tribute_share(scenario, tribute, hydromancer_share),
           DecSub(DecOne, hydromancer_commission_rate(scenario)))

\* a faulty variant: the commission taken on the proposals without votes too
ProtocolProposalUnfiltered(scenario, proposal, active_proposal_ids) ==
    [t \in 1..Len(proposal.tributes) |->
        [k |-> proposal.tributes[t].denom,
         v |-> DecMul(DecFromCents(proposal.tributes[t].amount),
                      protocol_commission_rate(scenario))]]

\* one iteration of the loop over the proposals in
\* calculate_protocol_rewards: the "protocol_rewards[denom] += commission"
ProtocolProposal(scenario, proposal, active_proposal_ids) ==
    IF proposal.id \in active_proposal_ids
    THEN [t \in 1..Len(proposal.tributes) |->
            [k |-> proposal.tributes[t].denom,
             v |-> DecMul(DecFromCents(proposal.tributes[t].amount),
                          protocol_commission_rate(scenario))]]
    ELSE <<>>

calculate_protocol_rewards(scenario) ==
    Return(Accumulate(<<>>,
        Concat([p \in 1..Len(scenario.proposals) |->
                  ProtocolProposal(scenario, scenario.proposals[p],
                                   DOMAIN get_vessels_by_proposal(scenario))])))

\* "for proposal_id, vessels in ....items()": the power of each group summed
\* in the order of the keys
PowerByProposal(groups, order) ==
    RaiseOr(FirstExc([i \in 1..Len(order) |-> SumPower(groups[order[i]])]),
            [pid \in DOMAIN groups |-> SumPower(groups[pid]).val])

\* the vessels the loop adds: those with controlled_by == "hydromancer"
HydromancerVessels(vessels_by_proposal) ==
    [pid \in DOMAIN vessels_by_proposal |->
        SelectSeq(vessels_by_proposal[pid], IsHydromancer)]

calculate_hydromancer_voting_power_by_proposal(scenario) ==
    PowerByProposal(HydromancerVessels(get_vessels_by_proposal(scenario)),
                    ProposalKeyOrder(scenario))

calculate_total_voting_power_by_proposal(scenario) ==
    PowerByProposal(get_vessels_by_proposal(scenario), ProposalKeyOrder(scenario))

\* a faulty variant: hydromancer's commission taken on its share of the whole
\* tribute, the protocol's commission not removed first
HydromancerProposalFlat(scenario, proposal, hydromancer_power_by_proposal, total_power_by_proposal) ==
    IF /\ proposal.id \in DOMAIN hydromancer_power_by_proposal
       /\ ~DecIsZero(hydromancer_power_by_proposal[proposal.id])
    THEN [t \in 1..Len(proposal.tributes) |->
            [k |-> proposal.tributes[t].denom,
             v |-> DecMul(DecMul(DecFromCents(proposal.tributes[t].amount),
                              DecDiv(hydromancer_power_by_proposal[proposal.id],
                                     total_power_by_proposal[proposal.id])),
                          hydromancer_commission_rate(scenario))]]
    ELSE <<>>

\* one iteration of the loop over the proposals in
\* calculate_hydromancer_rewards: the "rewards[denom] += commission" it makes
HydromancerProposal(scenario, proposal, hydromancer_power_by_proposal, total_power_by_proposal) ==
    IF /\ proposal.id \in DOMAIN hydromancer_power_by_proposal
       /\ ~DecIsZero(hydromancer_power_by_proposal[proposal.id])
    THEN [t \in 1..Len(proposal.tributes) |->
            [k |-> proposal.tributes[t].denom,
             v |-> DecMul(hydromancer_tribute_share(scenario, proposal.tributes[t],
                              DecDiv(hydromancer_power_by_proposal[proposal.id],
                                     total_power_by_proposal[proposal.id])),
                          hydromancer_commission_rate(scenario))]]
    ELSE <<>>

HydromancerRewards(scenario, hydromancer_power_by_proposal, total_power_by_proposal) ==
    IF hydromancer_power_by_proposal.exc # "none"
    THEN Raise(hydromancer_power_by_proposal.exc)
    ELSE IF total_power_by_proposal.exc # "none"
    THEN Raise(total_power_by_proposal.exc)
    ELSE Return(Accumulate(<<>>,
            Concat([p \in 1..Len(scenario.proposals) |->
                      HydromancerProposal(scenario, scenario.proposals[p],
                                          hydromancer_power_by_proposal.val,
                                          total_power_by_proposal.val)])))

calculate_hydromancer_rewards(scenario) ==
    HydromancerRewards(scenario,
                       calculate_hydromancer_voting_power_by_proposal(scenario),
                       calculate_total_voting_power_by_proposal(scenario))

\* a faulty variant: the quotient taken upside down
UserShareInverted(vessel_power, total_power) ==
    IF vessel_power.exc # "none" THEN vessel_power
    ELSE Divide(total_power, vessel_power.val)

\* vessel_power / total_power, unless the call that computed vessel_power
\* raised
UserShare(vessel_power, total_power) ==
    IF vessel_power.exc # "none" THEN vessel_power
    ELSE Divide(vessel_power.val, total_power)

\* the loop over user_vessels for one proposal: the exception raised, else
\* the "rewards[user_id][denom] += user_reward" made
DirectVessels(scenario, proposal, user_vessels, user_share) ==
    RaiseOr(FirstExc(user_share),
            Concat([i \in 1..Len(user_vessels) |->
                      [t \in 1..Len(proposal.tributes) |->
                         [u |-> user_vessels[i].user_id,
                          k |-> proposal.tributes[t].denom,
                          v |-> DecMul(after_protocol_commission(scenario,
                                           proposal.tributes[t]),
                                       user_share[i].val)]]]))

UserShares(user_vessels, total_power) ==
    [i \in 1..Len(user_vessels) |->
        UserShare(calculate_voting_power(user_vessels[i]), total_power)]

\* a faulty variant: the vessels locked for less than the proposal asks left
\* out of the direct rewards, as they are of the delegated ones
DirectProposalEligible(scenario, proposal, vessels_by_proposal, total_power_by_proposal) ==
    IF proposal.id \notin DOMAIN vessels_by_proposal
    THEN Return(<<>>)
    ELSE DirectVessels(scenario, proposal,
                       SelectSeq(vessels_by_proposal[proposal.id],
                                 LAMBDA v : IsUser(v) /\ v.lock_duration_rounds
                                                >= proposal.bid_duration_months),
                       UserShares(SelectSeq(vessels_by_proposal[proposal.id],
                                      LAMBDA v : IsUser(v) /\ v.lock_duration_rounds
                                                     >= proposal.bid_duration_months),
                                  total_power_by_proposal[proposal.id]))

\* one iteration of the loop over the proposals in
\* calculate_user_direct_rewards
DirectProposal(scenario, proposal, vessels_by_proposal, total_power_by_proposal) ==
    IF proposal.id \notin DOMAIN vessels_by_proposal
    THEN Return(<<>>)
    ELSE DirectVessels(scenario, proposal,
                       SelectSeq(vessels_by_proposal[proposal.id], IsUser),
                       UserShares(SelectSeq(vessels_by_proposal[proposal.id], IsUser),
                                  total_power_by_proposal[proposal.id]))

\* the results of the iterations of a loop, each a sequence of
\* "rewards[u][k] += v": the first exception, else the dict they leave
AccumulateCalls(calls) ==
    RaiseOr(FirstExc(calls),
            Accumulate2(<<>>, Concat([i \in 1..Len(calls) |-> calls[i].val])))

DirectRewards(scenario, vessels_by_proposal, total_power_by_proposal) ==
    IF total_power_by_proposal.exc # "none"
    THEN Raise(total_power_by_proposal.exc)
    ELSE AccumulateCalls([p \in 1..Len(scenario.proposals) |->
            DirectProposal(scenario, scenario.proposals[p], vessels_by_proposal,
                           total_power_by_proposal.val)])

calculate_user_direct_rewards(scenario) ==
    DirectRewards(scenario, get_vessels_by_proposal(scenario),
                  calculate_total_voting_power_by_proposal(scenario))

HydromancerVesselsInOrder(scenario) ==
    SelectSeq(VesselsInOrder(scenario), IsHydromancer)

Owners(vessels) == [i \in 1..Len(vessels) |-> vessels[i].user_id]

\* user_vessels_by_duration: the users owning a hydromancer-controlled
\* vessel, in the order of their first such vessel
DelegatingUsers(scenario) == KeyOrder(Owners(HydromancerVesselsInOrder(scenario)))

Durations(vessels) ==
    [i \in 1..Len(vessels) |-> vessels[i].lock_duration_rounds]

\* a faulty variant: no group left out, whatever the proposal's duration
EligibleGroupsAnyDuration(vessels, durations, proposal_duration) ==
    Concat([d \in 1..Len(durations) |->
              SelectSeq(vessels, LAMBDA v : v.lock_duration_rounds = durations[d])])

\* vessels_by_duration.items() with the groups of a duration below the
\* proposal's left out: the vessels "user_power +=" visits, in order
EligibleGroups(vessels, durations, proposal_duration) ==
    Concat([d \in 1..Len(durations) |->
              IF durations[d] >= proposal_duration
              THEN SelectSeq(vessels,
                     LAMBDA v : v.lock_duration_rounds = durations[d])
              ELSE <<>>])

EligibleOf(vessels, proposal_duration) ==
    EligibleGroups(vessels, KeyOrder(Durations(vessels)), proposal_duration)

EligibleVessels(scenario, user_id, proposal_duration) ==
    EligibleOf(SelectSeq(HydromancerVesselsInOrder(scenario),
                         LAMBDA v : v.user_id = user_id),
               proposal_duration)

\* total_eligible_power after the users of the sequence, in order
RECURSIVE SumEligibleFrom(_, _, _)
SumEligibleFrom(user_power, i, total) ==
    IF i > Len(user_power) THEN total
    ELSE SumEligibleFrom(user_power, i + 1,
            IF DecIsZero(user_power[i].val) THEN total
            ELSE DecAdd(total, user_power[i].val))

\* the outcome of one iteration of the loop over the proposals in
\* calculate_user_delegated_rewards: the exception raised, whether it
\* reached the distribution, and the "rewards[user_id][denom] +=
\* user_reward" made
DelegatedSkip == [exc |-> "none", val |-> <<>>, distributes |-> FALSE]

DelegatedRaise(e) == [exc |-> e, val |-> <<>>, distributes |-> FALSE]

\* a faulty variant: the eligible users paid equal parts
DelegatedDistributionEqual(scenario, proposal, hydromancer_share, users, user_power, eligible, total_eligible_power) ==
    Concat([t \in 1..Len(proposal.tributes) |->
              [j \in 1..Len(eligible) |->
                 [u |-> users[eligible[j]],
                  k |-> proposal.tributes[t].denom,
                  v |-> DecMul(after_hydromancer_commission(scenario,
                                   proposal.tributes[t], hydromancer_share),
                               DecDiv(DecOne, DecFromInt(Len(eligible))))]]])

\* "for tribute ...: for user_id, user_power in eligible_user_power.items()"
DelegatedDistribution(scenario, proposal, hydromancer_share, users, user_power, eligible, total_eligible_power) ==
    Concat([t \in 1..Len(proposal.tributes) |->
              [j \in 1..Len(eligible) |->
                 [u |-> users[eligible[j]],
                  k |-> proposal.tributes[t].denom,
                  v |-> DecMul(after_hydromancer_commission(scenario,
                                   proposal.tributes[t], hydromancer_share),
                               DecDiv(user_power[eligible[j]].val,
                                      total_eligible_power))]]])

\* the users entered in eligible_user_power: those with user_power > 0
EligibleUsers(user_power) ==
    SelectSeq([i \in 1..Len(user_power) |-> i],
              LAMBDA i : ~DecIsZero(user_power[i].val))

DelegatedEligible(scenario, proposal, hydromancer_share, users, user_power) ==
    IF FirstExc(user_power) # "none"
    THEN DelegatedRaise(FirstExc(user_power))
    ELSE IF DecIsZero(SumEligibleFrom(user_power, 1, DecZero))
    THEN DelegatedSkip
    ELSE [exc |-> "none",
          distributes |-> TRUE,
          val |-> DelegatedDistribution(scenario, proposal, hydromancer_share,
                      users, user_power, EligibleUsers(user_power),
                      SumEligibleFrom(user_power, 1, DecZero))]

UserPower(scenario, users, proposal_duration) ==
    [i \in 1..Len(users) |->
        SumPower(EligibleVessels(scenario, users[i], proposal_duration))]

DelegatedShare(scenario, proposal, hydromancer_share, users) ==
    IF hydromancer_share.exc # "none"
    THEN DelegatedRaise(hydromancer_share.exc)
    ELSE DelegatedEligible(scenario, proposal, hydromancer_share.val, users,
             UserPower(scenario, users, proposal.bid_duration_months))

DelegatedPower(scenario, proposal, total_hydromancer_power_for_proposal, total_power_by_proposal) ==
    IF total_hydromancer_power_for_proposal.exc # "none"
    THEN DelegatedRaise(total_hydromancer_power_for_proposal.exc)
    ELSE IF total_power_by_proposal.exc # "none"
    THEN DelegatedRaise(total_power_by_proposal.exc)
    ELSE DelegatedShare(scenario, proposal,
             Divide(total_hydromancer_power_for_proposal.val,
                    total_power_by_proposal.val[proposal.id]),
             DelegatingUsers(scenario))

DelegatedHydromancer(scenario, proposal, hydromancer_vessels_for_proposal) ==
    IF hydromancer_vessels_for_proposal = <<>>
    THEN DelegatedSkip
    ELSE DelegatedPower(scenario, proposal,
                        SumPower(hydromancer_vessels_for_proposal),
                        calculate_total_voting_power_by_proposal(scenario))

DelegatedVessels(scenario, proposal, vessels_by_proposal) ==
    IF proposal.id \notin DOMAIN vessels_by_proposal
    THEN DelegatedSkip
    ELSE DelegatedHydromancer(scenario, proposal,
             SelectSeq(vessels_by_proposal[proposal.id], IsHydromancer))

DelegatedProposal(scenario, proposal) ==
    DelegatedVessels(scenario, proposal, get_vessels_by_proposal(scenario))

calculate_user_delegated_rewards(scenario) ==
    AccumulateCalls([p \in 1..Len(scenario.proposals) |->
                       DelegatedProposal(scenario, scenario.proposals[p])])

\* str(amount.quantize(Decimal('0.01'), rounding=ROUND_HALF_UP)) for every
\* value of a dict; the string "u.cc" is held as the number of cents it shows
QuantizeDict(m) == [k \in DOMAIN m |-> DecQuantizeCents(m[k])]

\* m[u][k] of a dict of dicts, Decimal() when the entry is not there
Get(m, u, k) ==
    IF u \in DOMAIN m /\ k \in DOMAIN m[u] THEN m[u][k] ELSE DecZero

Denoms(m, u) == IF u \in DOMAIN m THEN DOMAIN m[u] ELSE {}

\* a faulty variant: "=" for "+=", the delegated reward replacing the direct
\* one
all_user_rewards_overwritten(direct, delegated) ==
    [u \in (DOMAIN direct) \cup (DOMAIN delegated) |->
        [k \in Denoms(direct, u) \cup Denoms(delegated, u) |->
            IF k \in Denoms(delegated, u) THEN Get(delegated, u, k)
            ELSE Get(direct, u, k)]]

\* "all_user_rewards[user_id][denom] += amount" over the direct and then the
\* delegated rewards
all_user_rewards(direct, delegated) ==
    [u \in (DOMAIN direct) \cup (DOMAIN delegated) |->
        [k \in Denoms(direct, u) \cup Denoms(delegated, u) |->
            DecAdd(Get(direct, u, k), Get(delegated, u, k))]]

final_user_rewards(all) == [u \in DOMAIN all |-> QuantizeDict(all[u])]

\* the tail of calculate_all_rewards: the user rewards combined and the three
\* sections rounded
CombineRewards(protocol, hydromancer, direct, delegated) ==
    [protocol_rewards |-> QuantizeDict(protocol),
     hydromancer_rewards |-> QuantizeDict(hydromancer),
     user_rewards |-> final_user_rewards(all_user_rewards(direct, delegated))]

AllRewards(protocol, hydromancer, direct, delegated) ==
    IF protocol.exc # "none" THEN Raise(protocol.exc)
    ELSE IF hydromancer.exc # "none" THEN Raise(hydromancer.exc)
    ELSE IF direct.exc # "none" THEN Raise(direct.exc)
    ELSE IF delegated.exc # "none" THEN Raise(delegated.exc)
    ELSE Return(CombineRewards(protocol.val, hydromancer.val,
                               direct.val, delegated.val))

\* calculate_all_rewards as one call: the exception of the first calculator
\* that raises, else the Result
calculate_all_rewards(scenario) ==
    AllRewards(calculate_protocol_rewards(scenario),
               calculate_hydromancer_rewards(scenario),
               calculate_user_direct_rewards(scenario),
               calculate_user_delegated_rewards(scenario))

(***************************************************************************)
(* The scenarios checked.  Proposal 1 and the vessels 1 and 2 of user "A"   *)
(* are those of the sample scenario of the source; the attributes named     *)
(* below vary.  Vessel 3, of user "B", may hold a token or a duration       *)
(* that has no multiplier.                                                  *)
(***************************************************************************)
AmountUnit == 50

AmountSteps == 2

Amounts == {AmountUnit * n : n \in 0..AmountSteps}

Controllers == {"user", "hydromancer"}

Votes == {None, 1, 2}

Vessel(id, duration, denom, amount, controller, vote) ==
    [id |-> id,
     lock_duration_rounds |-> duration,
     locked_denom |-> denom,
     locked_amount |-> amount,
     controlled_by |-> controller,
     voted_proposal_id |-> vote]

Vessels1 ==
    {Vessel(1, d, "dATOM", a, c, v) :
        d \in {1, 2}, a \in Amounts, c \in Controllers, v \in Votes}

Vessels2 ==
    {Vessel(2, 1, "stATOM", AmountUnit, c, v) : c \in Controllers, v \in Votes}

Vessels3 ==
    {Vessel(3, d, t, 2 * AmountUnit, c, v) :
        d \in {2, 4}, t \in {"dATOM", "NTRN"}, c \in Controllers, v \in Votes}

Proposals ==
    << [id |-> 1, bid_duration_months |-> 1,
        tributes |-> << [id |-> 1, denom |-> "dATOM", amount |-> 100000],
                        [id |-> 2, denom |-> "USDC", amount |-> 50000] >>],
       [id |-> 2, bid_duration_months |-> 2,
        tributes |-> << [id |-> 3, denom |-> "USDC", amount |-> 30000] >>] >>

ProtocolConfig ==
    [protocol_commission_bps |-> 1000, hydromancer_commission_bps |-> 500]

Scenarios ==
    {[protocol_config |-> ProtocolConfig,
      users |-> << [user_id |-> "A", vessels |-> <<v1, v2>>],
                   [user_id |-> "B", vessels |-> <<v3>>] >>,
      proposals |-> Proposals] :
        v1 \in Vessels1, v2 \in Vessels2, v3 \in Vessels3}

\* the scenario the source builds to try the calculator
sample_scenario ==
    [protocol_config |->
        [protocol_commission_bps |-> 1000, hydromancer_commission_bps |-> 500],
     users |-> << [user_id |-> "A",
                   vessels |-> << Vessel(1, 2, "dATOM", 100, "hydromancer", 1),
                                  Vessel(2, 1, "stATOM", 50, "user", 1) >>] >>,
     proposals |->
        << [id |-> 1, bid_duration_months |-> 1,
            tributes |-> << [id |-> 1, denom |-> "dATOM", amount |-> 100000],
                            [id |-> 2, denom |-> "USDC", amount |-> 50000] >>] >>]

(***************************************************************************)
(* One call of calculate_all_rewards(scenario), a step per calculator.      *)
(***************************************************************************)
VARIABLES
    scenario,                \* the argument; no step assigns to it
    pc,                      \* the statement the call is at
    protocol_rewards,        \* the locals of calculate_all_rewards
    hydromancer_rewards,
    user_direct_rewards,
    user_delegated_rewards,
    result,                  \* the value returned
    exc                      \* the exception that ended the call, or "none"

vars == <<scenario, pc, protocol_rewards, hydromancer_rewards,
          user_direct_rewards, user_delegated_rewards, result, exc>>

Init ==
    /\ scenario \in Scenarios
    /\ pc = "protocol"
    /\ protocol_rewards = <<>>
    /\ hydromancer_rewards = <<>>
    /\ user_direct_rewards = <<>>
    /\ user_delegated_rewards = <<>>
    /\ result = <<>>
    /\ exc = "none"

CalculateProtocolRewards ==
    /\ pc = "protocol"
    /\ protocol_rewards' = calculate_protocol_rewards(scenario).val
    /\ pc' = "hydromancer"
    /\ UNCHANGED <<scenario, hydromancer_rewards, user_direct_rewards,
                   user_delegated_rewards, result, exc>>

\* a calculator that returned leaves its value in its local and the call
\* moves on; one that raised ends the call
CalculateHydromancerRewards ==
    /\ pc = "hydromancer"
    /\ \E r \in {calculate_hydromancer_rewards(scenario)} :
          /\ hydromancer_rewards' = r.val
          /\ pc' = IF r.exc = "none" THEN "direct" ELSE "raised"
          /\ exc' = r.exc
    /\ UNCHANGED <<scenario, protocol_rewards, user_direct_rewards,
                   user_delegated_rewards, result>>

CalculateUserDirectRewards ==
    /\ pc = "direct"
    /\ \E r \in {calculate_user_direct_rewards(scenario)} :
          /\ user_direct_rewards' = r.val
          /\ pc' = IF r.exc = "none" THEN "delegated" ELSE "raised"
          /\ exc' = r.exc
    /\ UNCHANGED <<scenario, protocol_rewards, hydromancer_rewards,
                   user_delegated_rewards, result>>

CalculateUserDelegatedRewards ==
    /\ pc = "delegated"
    /\ \E r \in {calculate_user_delegated_rewards(scenario)} :
          /\ user_delegated_rewards' = r.val
          /\ pc' = IF r.exc = "none" THEN "combine" ELSE "raised"
          /\ exc' = r.exc
    /\ UNCHANGED <<scenario, protocol_rewards, hydromancer_rewards,
                   user_direct_rewards, result>>

CombineUserRewards ==
    /\ pc = "combine"
    /\ result' = CombineRewards(protocol_rewards, hydromancer_rewards,
                                user_direct_rewards, user_delegated_rewards)
    /\ pc' = "returned"
    /\ UNCHANGED <<scenario, protocol_rewards, hydromancer_rewards,
                   user_direct_rewards, user_delegated_rewards, exc>>

Next ==
    \/ CalculateProtocolRewards
    \/ CalculateHydromancerRewards
    \/ CalculateUserDirectRewards
    \/ CalculateUserDelegatedRewards
    \/ CombineUserRewards

Spec == Init /\ [][Next]_vars

\* the same call, on the sample scenario of the source as well
InitWithSample ==
    /\ scenario \in Scenarios \cup {sample_scenario}
    /\ pc = "protocol"
    /\ protocol_rewards = <<>>
    /\ hydromancer_rewards = <<>>
    /\ user_direct_rewards = <<>>
    /\ user_delegated_rewards = <<>>
    /\ result = <<>>
    /\ exc = "none"

SpecWithSample == InitWithSample /\ [][Next]_vars

(***************************************************************************)
(* The tail of calculate_all_rewards alone, entered with unrounded rewards  *)
(* of a few thousandths in its locals: none, one or both of the user maps   *)
(* hold the user, and the values include the half cent.                     *)
(***************************************************************************)
MaxMills == 7

Mills == {DecLit(k, -3) : k \in 0..MaxMills}

RewardDicts == {[d \in {"USDC"} |-> x] : x \in Mills}

UserRewardDicts(users) ==
    {<<>>} \cup UNION {{[u \in {user_id} |-> m] : m \in RewardDicts} :
                         user_id \in users}

InitRounding ==
    /\ scenario = sample_scenario
    /\ pc = "combine"
    /\ protocol_rewards \in RewardDicts
    /\ hydromancer_rewards \in RewardDicts
    /\ user_direct_rewards \in UserRewardDicts({"A"})
    /\ user_delegated_rewards \in UserRewardDicts({"A", "B"})
    /\ result = <<>>
    /\ exc = "none"

NextRounding == CombineUserRewards

SpecRounding == InitRounding /\ [][NextRounding]_vars

(***************************************************************************)
(* calculate_voting_power alone, called on the one vessel of a scenario:    *)
(* any token, duration, amount, controller and vote within the bounds.      *)
(***************************************************************************)
MaxAmount == 3

MaxDuration == 4

PowerVessels ==
    {Vessel(1, d, t, a, c, v) :
        d \in 1..MaxDuration, t \in {"dATOM", "stATOM", "NTRN"},
        a \in 0..MaxAmount, c \in Controllers, v \in Votes}

InitVotingPower ==
    /\ scenario \in {[protocol_config |-> ProtocolConfig,
                       users |-> << [user_id |-> "A", vessels |-> <<vessel>>] >>,
                       proposals |-> Proposals] : vessel \in PowerVessels}
    /\ pc = "voting_power"
    /\ protocol_rewards = <<>>
    /\ hydromancer_rewards = <<>>
    /\ user_direct_rewards = <<>>
    /\ user_delegated_rewards = <<>>
    /\ result = <<>>
    /\ exc = "none"

\* result holds the voting power returned
CalculateVotingPower ==
    /\ pc = "voting_power"
    /\ \E r \in {calculate_voting_power(scenario.users[1].vessels[1])} :
          /\ result' = r.val
          /\ pc' = IF r.exc = "none" THEN "returned" ELSE "raised"
          /\ exc' = r.exc
    /\ UNCHANGED <<scenario, protocol_rewards, hydromancer_rewards,
                   user_direct_rewards, user_delegated_rewards>>

NextVotingPower == CalculateVotingPower

SpecVotingPower == InitVotingPower /\ [][NextVotingPower]_vars

(***************************************************************************)
(* The four calculators run in any order, one after the other, and joined  *)
(* before the rewards are combined.  pc is the sequence of the calculators  *)
(* that have returned, in the order they did, closed by "returned" or       *)
(* "raised".  Each step leaves in the scenario what the calculator's loops  *)
(* over the vessels leave in it.                                            *)
(***************************************************************************)
OrderScenarios ==
    {s \in Scenarios :
        /\ s.users[1].vessels[1].lock_duration_rounds = 2
        /\ s.users[2].vessels[1].locked_denom = "dATOM"}

InitAnyOrder ==
    /\ scenario \in OrderScenarios \cup {sample_scenario}
    /\ pc = <<>>
    /\ protocol_rewards = <<>>
    /\ hydromancer_rewards = <<>>
    /\ user_direct_rewards = <<>>
    /\ user_delegated_rewards = <<>>
    /\ result = <<>>
    /\ exc = "none"

Done(calculator) == \E i \in 1..Len(pc) : pc[i] = calculator

Ended == pc # <<>> /\ pc[Len(pc)] \in {"returned", "raised"}

\* the vessels as the scenario holds them
RawVessels(s) ==
    UNION {{s.users[u].vessels[v] : v \in 1..Len(s.users[u].vessels)} :
              u \in 1..Len(s.users)}

\* the scenario after get_vessels_by_proposal, which every calculator calls
AfterGrouping(s) == AfterAnnotating(s, {w \in RawVessels(s) : IsVoting(w)})

\* the scenario after calculate_user_delegated_rewards
AfterDelegated(s) ==
    AfterGrouping(AfterAnnotating(s, {w \in RawVessels(s) : IsHydromancer(w)}))

ProtocolInAnyOrder ==
    /\ ~Ended /\ ~Done("protocol")
    /\ protocol_rewards' = calculate_protocol_rewards(scenario).val
    /\ pc' = Append(pc, "protocol")
    /\ scenario' = AfterGrouping(scenario)
    /\ UNCHANGED <<hydromancer_rewards, user_direct_rewards,
                   user_delegated_rewards, result, exc>>

HydromancerInAnyOrder ==
    /\ ~Ended /\ ~Done("hydromancer")
    /\ \E r \in {calculate_hydromancer_rewards(scenario)} :
          /\ hydromancer_rewards' = r.val
          /\ pc' = Append(pc, IF r.exc = "none" THEN "hydromancer" ELSE "raised")
          /\ exc' = r.exc
    /\ scenario' = AfterGrouping(scenario)
    /\ UNCHANGED <<protocol_rewards, user_direct_rewards,
                   user_delegated_rewards, result>>

DirectInAnyOrder ==
    /\ ~Ended /\ ~Done("direct")
    /\ \E r \in {calculate_user_direct_rewards(scenario)} :
          /\ user_direct_rewards' = r.val
          /\ pc' = Append(pc, IF r.exc = "none" THEN "direct" ELSE "raised")
          /\ exc' = r.exc
    /\ scenario' = AfterGrouping(scenario)
    /\ UNCHANGED <<protocol_rewards, hydromancer_rewards,
                   user_delegated_rewards, result>>

DelegatedInAnyOrder ==
    /\ ~Ended /\ ~Done("delegated")
    /\ \E r \in {calculate_user_delegated_rewards(scenario)} :
          /\ user_delegated_rewards' = r.val
          /\ pc' = Append(pc, IF r.exc = "none" THEN "delegated" ELSE "raised")
          /\ exc' = r.exc
    /\ scenario' = AfterDelegated(scenario)
    /\ UNCHANGED <<protocol_rewards, hydromancer_rewards,
                   user_direct_rewards, result>>

\* the join: the four have returned, the rewards are combined
JoinAndCombine ==
    /\ ~Ended /\ Len(pc) = 4
    /\ result' = CombineRewards(protocol_rewards, hydromancer_rewards,
                                user_direct_rewards, user_delegated_rewards)
    /\ pc' = Append(pc, "returned")
    /\ UNCHANGED <<scenario, protocol_rewards, hydromancer_rewards,
                   user_direct_rewards, user_delegated_rewards, exc>>

NextAnyOrder ==
    \/ ProtocolInAnyOrder
    \/ HydromancerInAnyOrder
    \/ DirectInAnyOrder
    \/ DelegatedInAnyOrder
    \/ JoinAndCombine

SpecAnyOrder == InitAnyOrder /\ [][NextAnyOrder]_vars

(***************************************************************************)
(* What the specification speaks of, said without the calculators: the     *)
(* vessels behind a proposal, the powers they add up to, and sums taken     *)
(* exactly (no rounding to the precision of the context).                   *)
(***************************************************************************)
ExactAlign(a, e) == NatShift(a.c, a.e - e)

ExactAdd(a, b) ==
    DecNorm(NatAdd(ExactAlign(a, Min(a.e, b.e)), ExactAlign(b, Min(a.e, b.e))),
            Min(a.e, b.e))

RECURSIVE ExactSum(_)
ExactSum(s) == IF s = <<>> THEN DecZero ELSE ExactAdd(Head(s), ExactSum(Tail(s)))

\* |a - b|
ExactDistance(a, b) ==
    LET e == Min(a.e, b.e)
        x == ExactAlign(a, e)
        y == ExactAlign(b, e)
    IN  DecNorm(IF NatCmp(x, y) >= 0 THEN NatSub(x, y) ELSE NatSub(y, x), e)

\* the rounding error allowed on an amount: a few units in the last of the
\* DecimalPrec digits
Tolerance(amount) == DecNorm(amount.c, amount.e - (DecimalPrec - 3))

Close(a, b, amount) == DecCmp(ExactDistance(a, b), Tolerance(amount)) <= 0

\* the values "+=" adds under key k
ValuesOf(entries, k) ==
    LET sel == SelectSeq(entries, LAMBDA e : e.k = k)
    IN  [i \in 1..Len(sel) |-> sel[i].v]

\* the vessels voting for proposal p, and whether there is one
VotersOn(s, p) ==
    SelectSeq(VesselsInOrder(s), LAMBDA v : v.voted_proposal_id = p.id)

IsActive(s, p) == VotersOn(s, p) # <<>>

HydromancerVotersOn(s, p) == SelectSeq(VotersOn(s, p), IsHydromancer)

UserVotersOn(s, p) == SelectSeq(VotersOn(s, p), IsUser)

\* the sum of the voting powers of valid vessels
PowerOf(vessels) == SumPower(vessels).val

HydromancerPowerOn(s, p) == PowerOf(HydromancerVotersOn(s, p))

TotalPowerOn(s, p) == PowerOf(VotersOn(s, p))

\* userEligiblePower: the power of all the hydromancer-controlled vessels of
\* the user that last at least as long as the proposal asks
EligibleOn(s, user_id, p) ==
    SelectSeq(VesselsInOrder(s),
              LAMBDA v : /\ IsHydromancer(v)
                         /\ v.user_id = user_id
                         /\ v.lock_duration_rounds >= p.bid_duration_months)

UserEligiblePower(s, user_id, p) == PowerOf(EligibleOn(s, user_id, p))

UserIds(s) == [u \in 1..Len(s.users) |-> s.users[u].user_id]

\* totalEligiblePower
TotalEligiblePower(s, p) ==
    ExactSum([u \in 1..Len(s.users) |-> UserEligiblePower(s, UserIds(s)[u], p)])

\* protocolRate, hydroCommissionRate
ProtocolRate(s) ==
    DecDiv(DecFromInt(s.protocol_config.protocol_commission_bps), DecFromInt(10000))

HydroCommissionRate(s) ==
    DecDiv(DecFromInt(s.protocol_config.hydromancer_commission_bps), DecFromInt(10000))

\* postProtocol = amount x (1 - protocolRate)
PostProtocol(s, tribute) ==
    DecMul(DecFromCents(tribute.amount), DecSub(DecOne, ProtocolRate(s)))

\* hydroShare = hydromancerPower / totalPower, for hydromancerPower > 0
HydroShare(s, p) == DecDiv(HydromancerPowerOn(s, p), TotalPowerOn(s, p))

\* hydroGross = postProtocol x hydroShare; nothing where hydromancer has
\* no power
HydroGross(s, p, tribute) ==
    IF DecIsZero(HydromancerPowerOn(s, p)) THEN DecZero
    ELSE DecMul(PostProtocol(s, tribute), HydroShare(s, p))

\* afterHydroCommission = hydroGross x (1 - hydroCommissionRate)
AfterHydroCommission(s, p, tribute) ==
    DecMul(HydroGross(s, p, tribute), DecSub(DecOne, HydroCommissionRate(s)))

\* hydromancer has power on p and no user is eligible: the residual is paid
\* to nobody
IsDropped(s, p) ==
    /\ IsActive(s, p)
    /\ ~DecIsZero(HydromancerPowerOn(s, p))
    /\ DecIsZero(TotalEligiblePower(s, p))

\* what one iteration of each calculator's loop adds for tribute t of the
\* proposal p = s.proposals[i]
ProtocolPaid(s, p, t) ==
    ValuesOf(ProtocolProposal(s, p, DOMAIN get_vessels_by_proposal(s)),
             p.tributes[t].denom)

HydromancerPaid(s, p, t) ==
    ValuesOf(HydromancerProposal(s, p,
                 calculate_hydromancer_voting_power_by_proposal(s).val,
                 calculate_total_voting_power_by_proposal(s).val),
             p.tributes[t].denom)

DirectPaid(s, p, t) ==
    ValuesOf(DirectProposal(s, p, get_vessels_by_proposal(s),
                 calculate_total_voting_power_by_proposal(s).val).val,
             p.tributes[t].denom)

DelegatedPaid(s, p, t) ==
    ValuesOf(DelegatedProposal(s, p).val, p.tributes[t].denom)

Paid(s, p, t) ==
    ProtocolPaid(s, p, t) \o HydromancerPaid(s, p, t)
        \o DirectPaid(s, p, t) \o DelegatedPaid(s, p, t)

TributeAmount(p, t) == DecFromCents(p.tributes[t].amount)

\* the amounts a dict of dicts holds under denom d, added exactly
At(m, d) == IF d \in DOMAIN m THEN m[d] ELSE DecZero

RECURSIVE ExactSumOver(_, _, _)
ExactSumOver(m, users, d) ==
    IF users = {} THEN DecZero
    ELSE LET u == CHOOSE u \in users : TRUE
         IN  ExactAdd(At(m[u], d), ExactSumOver(m, users \ {u}, d))

UserTotal(m, d) == ExactSumOver(m, DOMAIN m, d)

\* the tributes of denom d on the active proposals
ActiveAmounts(s, d) ==
    Concat([i \in 1..Len(s.proposals) |->
        IF IsActive(s, s.proposals[i])
        THEN LET sel == SelectSeq(s.proposals[i].tributes, LAMBDA x : x.denom = d)
             IN  [t \in 1..Len(sel) |-> DecFromCents(sel[t].amount)]
        ELSE <<>>])

TributeDenoms(s) ==
    UNION {{s.proposals[i].tributes[t].denom :
               t \in 1..Len(s.proposals[i].tributes)} : i \in 1..Len(s.proposals)}

\* C1 (as amended): for every active proposal on which hydromancer has no
\* power or some delegating user is eligible, and every tribute on it, the
\* unrounded amounts paid - the protocol's commission, hydromancer's
\* commission (not its gross share), the direct rewards and the delegated
\* rewards - add up to the tribute's amount, up to the rounding of the
\* DecimalPrec-digit arithmetic; and so do, per denom, the unrounded rewards
\* calculate_all_rewards holds before it rounds them.
C1_Conservation ==
    pc = "returned" =>
        /\ \A i \in 1..Len(scenario.proposals) :
              (IsActive(scenario, scenario.proposals[i])
                  /\ ~IsDropped(scenario, scenario.proposals[i])) =>
              \A t \in 1..Len(scenario.proposals[i].tributes) :
                  Close(ExactSum(Paid(scenario, scenario.proposals[i], t)),
                        TributeAmount(scenario.proposals[i], t),
                        TributeAmount(scenario.proposals[i], t))
        /\ (\A i \in 1..Len(scenario.proposals) :
                ~IsDropped(scenario, scenario.proposals[i])) =>
              \A d \in TributeDenoms(scenario) :
                  Close(ExactSum(<<At(protocol_rewards, d),
                                   At(hydromancer_rewards, d),
                                   UserTotal(user_direct_rewards, d),
                                   UserTotal(user_delegated_rewards, d)>>),
                        ExactSum(ActiveAmounts(scenario, d)),
                        ExactSum(ActiveAmounts(scenario, d)))

\* every proposal hydromancer-controlled vessels vote for has
\* totalEligiblePower > 0
AllCovered(s) ==
    \A i \in 1..Len(s.proposals) :
        HydromancerVotersOn(s, s.proposals[i]) # <<>> =>
            ~DecIsZero(TotalEligiblePower(s, s.proposals[i]))

\* C1 (as stated): where every hydromancer-voted proposal has eligible
\* users, protocolShare + hydroGrossShare + the direct user shares + the
\* delegated user shares of a tribute of an active proposal equal its amount
\* (read here as: up to the rounding of the arithmetic).
C1_AsStated ==
    (pc = "returned" /\ AllCovered(scenario)) =>
        \A i \in 1..Len(scenario.proposals) :
            IsActive(scenario, scenario.proposals[i]) =>
            \A t \in 1..Len(scenario.proposals[i].tributes) :
                Close(ExactSum(ProtocolPaid(scenario, scenario.proposals[i], t)
                        \o <<HydroGross(scenario, scenario.proposals[i],
                                        scenario.proposals[i].tributes[t])>>
                        \o DirectPaid(scenario, scenario.proposals[i], t)
                        \o DelegatedPaid(scenario, scenario.proposals[i], t)),
                      TributeAmount(scenario.proposals[i], t),
                      TributeAmount(scenario.proposals[i], t))

\* C1 witness: a call returned with proposal 1 paying all four kinds of
\* recipient, and the sum of what was paid is not exactly the amount
C1_Witness ==
    /\ pc = "returned"
    /\ ~IsDropped(scenario, scenario.proposals[1])
    /\ HydromancerPaid(scenario, scenario.proposals[1], 1) # <<>>
    /\ DirectPaid(scenario, scenario.proposals[1], 1) # <<>>
    /\ DelegatedPaid(scenario, scenario.proposals[1], 1) # <<>>
    /\ ExactSum(Paid(scenario, scenario.proposals[1], 1))
           # TributeAmount(scenario.proposals[1], 1)

IsValidVessel(v) ==
    /\ v.locked_denom \in {"dATOM", "stATOM"}
    /\ v.lock_duration_rounds \in {1, 2, 3}

AllValid(s) ==
    \A i \in 1..Len(VesselsInOrder(s)) : IsValidVessel(VesselsInOrder(s)[i])

\* C2 (as stated): calculate_all_rewards returns no result for a scenario
\* holding a vessel whose token is not dATOM or stATOM or whose duration is
\* not 1, 2 or 3, whoever controls the vessel and whether or not it voted.
C2_AsStated == pc = "returned" => AllValid(scenario)

\* C3 (as stated): calculate_all_rewards raises nothing on a scenario whose
\* vessels all hold a valid token for a valid duration, locked_amount 0
\* included.
C3_AsStated == AllValid(scenario) => pc # "raised"

RemoveProposal(s, i) ==
    [s EXCEPT !.proposals = SubSeq(s.proposals, 1, i - 1)
                              \o SubSeq(s.proposals, i + 1, Len(s.proposals))]

\* the denoms that only tributes of inactive proposals have
InactiveDenoms(s) ==
    {d \in TributeDenoms(s) : ActiveAmounts(s, d) = <<>>}

\* C4: a proposal no vessel votes for adds nothing: the Result returned is
\* the Result of the scenario without that proposal; a denom that only
\* inactive proposals carry is the key of no entry of the Result; and with
\* no active proposal at all the three sections are empty.
C4_InactiveProposals ==
    pc = "returned" =>
        /\ \A i \in 1..Len(scenario.proposals) :
              ~IsActive(scenario, scenario.proposals[i]) =>
                  calculate_all_rewards(RemoveProposal(scenario, i)) = Return(result)
        /\ \A d \in InactiveDenoms(scenario) :
              /\ d \notin DOMAIN result.protocol_rewards
              /\ d \notin DOMAIN result.hydromancer_rewards
              /\ \A u \in DOMAIN result.user_rewards :
                    d \notin DOMAIN result.user_rewards[u]
        /\ (\A i \in 1..Len(scenario.proposals) :
                ~IsActive(scenario, scenario.proposals[i])) =>
              result = [protocol_rewards |-> <<>>, hydromancer_rewards |-> <<>>,
                        user_rewards |-> <<>>]

\* C4 witness: a call returned rewards for a scenario in which proposal 1,
\* the only one with a dATOM tribute, has no vote and proposal 2 has votes
C4_Witness ==
    /\ pc = "returned"
    /\ ~IsActive(scenario, scenario.proposals[1])
    /\ IsActive(scenario, scenario.proposals[2])
    /\ "dATOM" \in InactiveDenoms(scenario)
    /\ result.user_rewards # <<>>
    /\ result.hydromancer_rewards # <<>>

\* the scenario with AmountUnit more locked in vessel v of user u, all else
\* equal
Increase(s, u, v) ==
    [s EXCEPT !.users[u].vessels[v].locked_amount = @ + AmountUnit]

VesselAt(s, u, v) == WithUser(s.users[u].vessels[v], s.users[u].user_id)

ProposalOf(s, pid) ==
    s.proposals[CHOOSE i \in 1..Len(s.proposals) : s.proposals[i].id = pid]

Returns(s) == calculate_all_rewards(s).exc = "none"

\* the unrounded rewards on tribute t of proposal p: of a user-controlled
\* vessel voting for p, of a delegating user, and hydromancer's commission
DirectRewardOf(s, p, t, vessel) ==
    DirectVessels(s, p, <<vessel>>,
        UserShares(<<vessel>>,
            calculate_total_voting_power_by_proposal(s).val[p.id])).val[t].v

DelegatedRewardOf(s, p, t, user_id) ==
    ExactSum(ValuesOf(SelectSeq(DelegatedProposal(s, p).val,
                                LAMBDA e : e.u = user_id),
                      p.tributes[t].denom))

CommissionOf(s, p, t) == ExactSum(HydromancerPaid(s, p, t))

Less(a, b) == DecCmp(a, b) < 0

\* a reward there was is smaller after the increase
Drops(before, after) == DecIsZero(before) \/ Less(after, before)

\* <<u, v>> for vessel v of user u
VesselIndices(s) ==
    UNION {{<<u, v>> : v \in 1..Len(s.users[u].vessels)} : u \in 1..Len(s.users)}

\* the user-controlled vessels voting for p other than vessel x of user y
OtherDirect(s, p, y, x) ==
    {uv \in VesselIndices(s) :
        /\ uv # <<y, x>>
        /\ IsUser(s.users[uv[1]].vessels[uv[2]])
        /\ s.users[uv[1]].vessels[uv[2]].voted_proposal_id = p.id}

\* the power on p of the vessels other than vessel x of user y
OtherPower(s, p, y, x) ==
    PowerOf(SelectSeq(VotersOn(s, p),
                      LAMBDA w : ~(w.user_id = s.users[y].user_id
                                   /\ w.id = s.users[y].vessels[x].id)))

\* the vessels <<u, v>> that vote, in a scenario that returns a Result
\* with and without the increase
Increasable(s) ==
    {uv \in VesselIndices(s) :
        /\ IsVoting(s.users[uv[1]].vessels[uv[2]])
        /\ Returns(Increase(s, uv[1], uv[2]))}

\* more locked in a user-controlled vessel voting for p, others having power
\* on p: its direct reward grows and every other reward on p that is not
\* zero shrinks; others having no power: its reward stays the same
UserMonotone(s, s2, p, u, v) ==
    \A t \in 1..Len(p.tributes) :
        IF DecIsZero(OtherPower(s, p, u, v))
        THEN DirectRewardOf(s2, p, t, VesselAt(s2, u, v))
                 = DirectRewardOf(s, p, t, VesselAt(s, u, v))
        ELSE /\ Less(DirectRewardOf(s, p, t, VesselAt(s, u, v)),
                     DirectRewardOf(s2, p, t, VesselAt(s2, u, v)))
             /\ \A o \in OtherDirect(s, p, u, v) :
                   Drops(DirectRewardOf(s, p, t, VesselAt(s, o[1], o[2])),
                         DirectRewardOf(s2, p, t, VesselAt(s2, o[1], o[2])))
             /\ Drops(CommissionOf(s, p, t), CommissionOf(s2, p, t))
             /\ \A w \in 1..Len(s.users) :
                   Drops(DelegatedRewardOf(s, p, t, s.users[w].user_id),
                         DelegatedRewardOf(s2, p, t, s.users[w].user_id))

\* more locked in a hydromancer-controlled vessel voting for p: every direct
\* reward on p that is not zero shrinks, and neither the delegated reward of
\* the vessel's owner nor hydromancer's commission shrinks
HydromancerMonotone(s, s2, p, u, v) ==
    \A t \in 1..Len(p.tributes) :
        /\ \A o \in OtherDirect(s, p, u, v) :
              Drops(DirectRewardOf(s, p, t, VesselAt(s, o[1], o[2])),
                    DirectRewardOf(s2, p, t, VesselAt(s2, o[1], o[2])))
        /\ ~Less(DelegatedRewardOf(s2, p, t, s.users[u].user_id),
                 DelegatedRewardOf(s, p, t, s.users[u].user_id))
        /\ ~Less(CommissionOf(s2, p, t), CommissionOf(s, p, t))

\* C5 (as amended): all else equal, increasing the locked_amount of a
\* user-controlled vessel voting for a proposal on which other vessels have
\* power strictly increases that vessel's unrounded direct reward and
\* strictly decreases every other non-zero unrounded reward on that proposal
\* (a sole voter's reward does not change); increasing that of a
\* hydromancer-controlled voting vessel strictly decreases every non-zero
\* direct reward on the proposal and decreases neither its owner's delegated
\* reward nor hydromancer's commission.
C5_Monotonicity ==
    pc = "returned" =>
        \A uv \in Increasable(scenario) :
            IF IsUser(scenario.users[uv[1]].vessels[uv[2]])
            THEN UserMonotone(scenario, Increase(scenario, uv[1], uv[2]),
                     ProposalOf(scenario,
                         scenario.users[uv[1]].vessels[uv[2]].voted_proposal_id),
                     uv[1], uv[2])
            ELSE HydromancerMonotone(scenario, Increase(scenario, uv[1], uv[2]),
                     ProposalOf(scenario,
                         scenario.users[uv[1]].vessels[uv[2]].voted_proposal_id),
                     uv[1], uv[2])

\* the reward on p of the one whose vessel grew: the vessel's direct reward,
\* or its owner's delegated reward
OwnReward(s, p, t, u, v) ==
    IF IsUser(s.users[u].vessels[v])
    THEN DirectRewardOf(s, p, t, VesselAt(s, u, v))
    ELSE DelegatedRewardOf(s, p, t, s.users[u].user_id)

\* the others paid on p: the other user-controlled vessels voting for it
\* and the other users' delegated rewards
StrictlyMonotone(s, s2, p, u, v) ==
    \A t \in 1..Len(p.tributes) :
        /\ Less(OwnReward(s, p, t, u, v), OwnReward(s2, p, t, u, v))
        /\ \A o \in OtherDirect(s, p, u, v) :
              Drops(DirectRewardOf(s, p, t, VesselAt(s, o[1], o[2])),
                    DirectRewardOf(s2, p, t, VesselAt(s2, o[1], o[2])))
        /\ \A w \in 1..Len(s.users) :
              w # u => Drops(DelegatedRewardOf(s, p, t, s.users[w].user_id),
                             DelegatedRewardOf(s2, p, t, s.users[w].user_id))

\* C5 (as stated): all else equal, increasing the locked_amount of a vessel
\* voting for a proposal strictly increases the unrounded reward on that
\* proposal of the vessel (user-controlled) or of its owner
\* (hydromancer-controlled), and strictly decreases that of every other
\* participant (read here as: of every other vessel or user paid anything).
C5_AsStated ==
    pc = "returned" =>
        \A uv \in Increasable(scenario) :
            StrictlyMonotone(scenario, Increase(scenario, uv[1], uv[2]),
                ProposalOf(scenario,
                    scenario.users[uv[1]].vessels[uv[2]].voted_proposal_id),
                uv[1], uv[2])

\* C5 witness: a call returned for a scenario where user A's user-controlled
\* vessel 2 votes for proposal 1 next to vessel 1, hydromancer-controlled and
\* with power, and hydromancer-controlled vessel 3 of user B is eligible
C5_Witness ==
    /\ pc = "returned"
    /\ <<1, 2>> \in Increasable(scenario)
    /\ <<1, 1>> \in Increasable(scenario)
    /\ IsUser(scenario.users[1].vessels[2])
    /\ IsHydromancer(scenario.users[1].vessels[1])
    /\ IsHydromancer(scenario.users[2].vessels[1])
    /\ scenario.users[1].vessels[1].voted_proposal_id = 1
    /\ scenario.users[1].vessels[2].voted_proposal_id = 1
    /\ ~DecIsZero(CommissionOf(scenario, scenario.proposals[1], 1))
    /\ ~DecIsZero(DelegatedRewardOf(scenario, scenario.proposals[1], 1, "B"))

\* the residual of tribute t of p: afterHydroCommission
Residual(s, p, t) == AfterHydroCommission(s, p, p.tributes[t])

\* the scenario with vessel v of user u handed to hydromancer
Delegate(s, u, v) ==
    [s EXCEPT !.users[u].vessels[v].controlled_by = "hydromancer"]

\* the vessels that cast no vote and that their user controls
Idle(s) ==
    {uv \in VesselIndices(s) :
        /\ ~IsVoting(s.users[uv[1]].vessels[uv[2]])
        /\ IsUser(s.users[uv[1]].vessels[uv[2]])}

\* what C6 says of a proposal p whose residual is dropped, but for the total
\* of the payouts
DropsResidual(s, p) ==
    /\ ~DelegatedProposal(s, p).distributes
    /\ \A t \in 1..Len(p.tributes) :
          /\ DelegatedPaid(s, p, t) = <<>>
          /\ ProtocolPaid(s, p, t)
                 = <<DecMul(TributeAmount(p, t), ProtocolRate(s))>>
          /\ HydromancerPaid(s, p, t)
                 = <<DecMul(HydroGross(s, p, p.tributes[t]),
                            HydroCommissionRate(s))>>
          /\ \A uv \in Idle(s) :
                Returns(Delegate(s, uv[1], uv[2])) =>
                    /\ ProtocolPaid(Delegate(s, uv[1], uv[2]), p, t)
                           = ProtocolPaid(s, p, t)
                    /\ HydromancerPaid(Delegate(s, uv[1], uv[2]), p, t)
                           = HydromancerPaid(s, p, t)

\* no proposal pays delegated rewards: each is inactive, without
\* hydromancer-controlled voters, or has its residual dropped
NoneDistributes(s) ==
    \A i \in 1..Len(s.proposals) :
        \/ HydromancerVotersOn(s, s.proposals[i]) = <<>>
        \/ IsDropped(s, s.proposals[i])

\* C6 (as amended): for an active proposal with hydromancer voting power > 0
\* and totalEligiblePower = 0 the delegated path pays nothing to any user,
\* the protocol's and hydromancer's amounts for each tribute are what they
\* are when a user is eligible, and the payouts for the tribute add up to
\* its amount minus the residual amount x (1 - protocolRate) x hydroShare x
\* (1 - hydroCommissionRate), up to the rounding of the DecimalPrec-digit
\* arithmetic.
C6_SilentDrop ==
    pc = "returned" =>
        /\ \A i \in 1..Len(scenario.proposals) :
              IsDropped(scenario, scenario.proposals[i]) =>
                  /\ DropsResidual(scenario, scenario.proposals[i])
                  /\ \A t \in 1..Len(scenario.proposals[i].tributes) :
                        Close(ExactAdd(ExactSum(Paid(scenario,
                                           scenario.proposals[i], t)),
                                       Residual(scenario, scenario.proposals[i], t)),
                              TributeAmount(scenario.proposals[i], t),
                              TributeAmount(scenario.proposals[i], t))
        /\ NoneDistributes(scenario) => user_delegated_rewards = <<>>

\* C6 (as stated): the same, the payouts for the tribute being equal to its
\* amount minus the residual.
C6_AsStated ==
    pc = "returned" =>
        /\ \A i \in 1..Len(scenario.proposals) :
              IsDropped(scenario, scenario.proposals[i]) =>
                  /\ DropsResidual(scenario, scenario.proposals[i])
                  /\ \A t \in 1..Len(scenario.proposals[i].tributes) :
                        ExactAdd(ExactSum(Paid(scenario, scenario.proposals[i], t)),
                                 Residual(scenario, scenario.proposals[i], t))
                            = TributeAmount(scenario.proposals[i], t)
        /\ NoneDistributes(scenario) => user_delegated_rewards = <<>>

\* C6 witness: a call returned for a scenario where hydromancer has power on
\* proposal 2 next to a user-controlled voter, no user is eligible for it,
\* and a vessel that could be delegated is idle
C6_Witness ==
    /\ pc = "returned"
    /\ IsDropped(scenario, scenario.proposals[2])
    /\ UserVotersOn(scenario, scenario.proposals[2]) # <<>>
    /\ \E uv \in Idle(scenario) :
          /\ Returns(Delegate(scenario, uv[1], uv[2]))
          /\ ~IsDropped(Delegate(scenario, uv[1], uv[2]), scenario.proposals[2])

\* hydromancer has power on p and some user is eligible
IsDistributed(s, p) ==
    /\ IsActive(s, p)
    /\ ~DecIsZero(HydromancerPowerOn(s, p))
    /\ ~DecIsZero(TotalEligiblePower(s, p))

\* the delegated reward the weighting gives user_id for a tribute of p: none
\* without eligible power, else afterHydroCommission x userEligiblePower /
\* totalEligiblePower
WeightedReward(s, p, tribute, user_id) ==
    IF DecIsZero(UserEligiblePower(s, user_id, p))
    THEN <<>>
    ELSE <<[u |-> user_id,
            k |-> tribute.denom,
            v |-> DecMul(AfterHydroCommission(s, p, tribute),
                         DecDiv(UserEligiblePower(s, user_id, p),
                                TotalEligiblePower(s, p)))]>>

\* those rewards for every tribute of p and every user
WeightedRewards(s, p) ==
    Concat([t \in 1..Len(p.tributes) |->
        Concat([u \in 1..Len(s.users) |->
            WeightedReward(s, p, p.tributes[t], s.users[u].user_id)])])

\* every proposal with hydromancer-controlled voters gives hydromancer power
NoPowerlessHydromancer(s) ==
    \A i \in 1..Len(s.proposals) :
        HydromancerVotersOn(s, s.proposals[i]) # <<>> =>
            ~DecIsZero(HydromancerPowerOn(s, s.proposals[i]))

WeightedRewardsOfAll(s) ==
    Concat([i \in 1..Len(s.proposals) |->
        IF IsDistributed(s, s.proposals[i])
        THEN WeightedRewards(s, s.proposals[i]) ELSE <<>>])

\* what C7 says of a proposal that distributes, but for the sum of the
\* rewards
IsWeighted(s, p) ==
    /\ DelegatedProposal(s, p).distributes
    /\ DelegatedProposal(s, p).val = WeightedRewards(s, p)

\* C7 (as amended): for every active proposal with hydromancer voting power
\* > 0 and totalEligiblePower > 0, the delegated reward of each user per
\* tribute is afterHydroCommission x userEligiblePower / totalEligiblePower,
\* userEligiblePower being the power of all the user's
\* hydromancer-controlled vessels with lock_duration_rounds >=
\* bid_duration_months, voting for this proposal or not; a user without such
\* power gets no entry; and the delegated rewards of a tribute add up to
\* afterHydroCommission up to the rounding of the DecimalPrec-digit
\* arithmetic.  Where every proposal hydromancer-controlled vessels vote for
\* gives hydromancer power, the rewards calculate_user_delegated_rewards
\* returns are these, accumulated.
C7_DelegatedWeighting ==
    pc = "returned" =>
        /\ \A i \in 1..Len(scenario.proposals) :
              IsDistributed(scenario, scenario.proposals[i]) =>
                  /\ IsWeighted(scenario, scenario.proposals[i])
                  /\ \A t \in 1..Len(scenario.proposals[i].tributes) :
                        Close(ExactSum(DelegatedPaid(scenario,
                                           scenario.proposals[i], t)),
                              Residual(scenario, scenario.proposals[i], t),
                              TributeAmount(scenario.proposals[i], t))
        /\ NoPowerlessHydromancer(scenario) =>
              user_delegated_rewards
                  = Accumulate2(<<>>, WeightedRewardsOfAll(scenario))

\* C7 (as stated): the same, the delegated rewards of a tribute adding up to
\* afterHydroCommission exactly.
C7_AsStated ==
    pc = "returned" =>
        \A i \in 1..Len(scenario.proposals) :
            IsDistributed(scenario, scenario.proposals[i]) =>
                /\ IsWeighted(scenario, scenario.proposals[i])
                /\ \A t \in 1..Len(scenario.proposals[i].tributes) :
                      ExactSum(DelegatedPaid(scenario, scenario.proposals[i], t))
                          = Residual(scenario, scenario.proposals[i], t)

\* C7 witness: a call returned for a scenario where proposal 2 distributes
\* to the users A and B, a vessel of A is below the threshold of proposal 2
\* and the eligible vessel of B does not vote for proposal 2
C7_Witness ==
    /\ pc = "returned"
    /\ IsDistributed(scenario, scenario.proposals[2])
    /\ Len(DelegatedPaid(scenario, scenario.proposals[2], 1)) = 2
    /\ IsHydromancer(scenario.users[1].vessels[2])
    /\ IsHydromancer(scenario.users[2].vessels[1])
    /\ scenario.users[2].vessels[1].voted_proposal_id # 2
    /\ user_delegated_rewards # <<>>

\* C8 (as stated): for an active proposal whose hydromancer-controlled
\* voting vessels have total power 0, calculate_user_delegated_rewards adds
\* no amount and no user/denom entry for the tributes of the proposal; when
\* that is so of every active proposal it returns no entry at all.
C8_AsStated ==
    pc \in {"combine", "returned"} =>
        /\ \A i \in 1..Len(scenario.proposals) :
              (IsActive(scenario, scenario.proposals[i])
                  /\ DecIsZero(HydromancerPowerOn(scenario, scenario.proposals[i])))
              => DelegatedProposal(scenario, scenario.proposals[i]).val = <<>>
        /\ (\A i \in 1..Len(scenario.proposals) :
                DecIsZero(HydromancerPowerOn(scenario, scenario.proposals[i])))
              => user_delegated_rewards = <<>>

\* hydromancer's commission on each tribute of p: amount x (1 -
\* protocolRate) x (hydromancerPower / totalPower) x
\* hydromancerCommissionRate, nothing without hydromancer power
LayeredCommissions(s, p) ==
    IF IsActive(s, p) /\ ~DecIsZero(HydromancerPowerOn(s, p))
    THEN [t \in 1..Len(p.tributes) |->
            [k |-> p.tributes[t].denom,
             v |-> DecMul(DecMul(DecMul(TributeAmount(p, t),
                                        DecSub(DecOne, ProtocolRate(s))),
                                 DecDiv(HydromancerPowerOn(s, p),
                                        TotalPowerOn(s, p))),
                          HydroCommissionRate(s))]]
    ELSE <<>>

\* hydromancer-controlled vessels have all the power on p
FullyControlled(s, p) ==
    /\ ~DecIsZero(HydromancerPowerOn(s, p))
    /\ HydromancerPowerOn(s, p) = TotalPowerOn(s, p)

\* C9: once calculate_hydromancer_rewards has returned, hydromancer's
\* unrounded reward per denom is the sum over the active proposals with
\* hydromancer power > 0 and their tributes of that denom of amount x (1 -
\* protocolRate) x (hydromancerPower / totalPower) x
\* hydromancerCommissionRate, eligible users or not, and proposals without
\* hydromancer power add nothing; for a proposal fully controlled by
\* hydromancer the commission on a tribute is amount x (1 - protocolRate) x
\* hydromancerCommissionRate.
C9_CommissionLayering ==
    pc \in {"direct", "delegated", "combine", "returned"} =>
        /\ hydromancer_rewards
               = Accumulate(<<>>, Concat([i \in 1..Len(scenario.proposals) |->
                     LayeredCommissions(scenario, scenario.proposals[i])]))
        /\ \A i \in 1..Len(scenario.proposals) :
              FullyControlled(scenario, scenario.proposals[i]) =>
                  \A t \in 1..Len(scenario.proposals[i].tributes) :
                      HydromancerPaid(scenario, scenario.proposals[i], t)
                          = <<DecMul(DecMul(TributeAmount(scenario.proposals[i], t),
                                            DecSub(DecOne, ProtocolRate(scenario))),
                                     HydroCommissionRate(scenario))>>

\* C9 witness: a call returned for a scenario where proposal 2, the only
\* active one, is fully controlled by hydromancer and no user is eligible;
\* hydromancer's reward is 300.00 x 0.9 x 0.05 = 13.5 USDC
C9_Witness ==
    /\ pc = "returned"
    /\ ~IsActive(scenario, scenario.proposals[1])
    /\ FullyControlled(scenario, scenario.proposals[2])
    /\ IsDropped(scenario, scenario.proposals[2])
    /\ hydromancer_rewards = [d \in {"USDC"} |-> DecLit(135, -1)]

\* the protocol's commission on each tribute of p: amount x
\* protocol_commission_bps / 10000, nothing on an inactive proposal
ProtocolCommissions(s, p) ==
    IF IsActive(s, p)
    THEN [t \in 1..Len(p.tributes) |->
            [k |-> p.tributes[t].denom,
             v |-> DecDiv(DecMul(TributeAmount(p, t),
                              DecFromInt(s.protocol_config.protocol_commission_bps)),
                          DecFromInt(10000))]]
    ELSE <<>>

\* the scenarios that differ from s in the amount, the token, the duration
\* or the controller of one vessel, the votes being those of s
Revested(s) ==
    UNION {{[s EXCEPT !.users[uv[1]].vessels[uv[2]].locked_amount = @ + AmountUnit],
            [s EXCEPT !.users[uv[1]].vessels[uv[2]].locked_denom =
                          IF @ = "dATOM" THEN "NTRN" ELSE "dATOM"],
            [s EXCEPT !.users[uv[1]].vessels[uv[2]].lock_duration_rounds =
                          IF @ = 4 THEN 1 ELSE @ + 1],
            [s EXCEPT !.users[uv[1]].vessels[uv[2]].controlled_by =
                          IF @ = "user" THEN "hydromancer" ELSE "user"]} :
           uv \in VesselIndices(s)}

\* C10: once calculate_protocol_rewards has returned, protocol_rewards per
\* denom is the sum over the tributes of that denom on the active proposals
\* of amount x protocol_commission_bps / 10000, and it is what
\* calculate_protocol_rewards returns for the scenario with the amount, the
\* token, the duration or the controller of a vessel changed and the votes
\* kept.
C10_ProtocolCommission ==
    pc # "protocol" =>
        /\ protocol_rewards
               = Accumulate(<<>>, Concat([i \in 1..Len(scenario.proposals) |->
                     ProtocolCommissions(scenario, scenario.proposals[i])]))
        /\ pc = "hydromancer" =>
              \A s2 \in Revested(scenario) :
                  calculate_protocol_rewards(s2) = Return(protocol_rewards)

\* C10 witness: calculate_protocol_rewards has returned 100 dATOM and 50 +
\* 30 USDC for a scenario with both proposals active and a vessel whose
\* token is not valid
C10_Witness ==
    /\ pc = "hydromancer"
    /\ IsActive(scenario, scenario.proposals[1])
    /\ IsActive(scenario, scenario.proposals[2])
    /\ ~AllValid(scenario)
    /\ protocol_rewards = [d \in {"dATOM", "USDC"} |->
                              IF d = "dATOM" THEN DecFromInt(100) ELSE DecFromInt(80)]

\* the rewards the user-controlled vessels of user_id voting for p earn on
\* the tributes of p: postProtocol x (vesselPower / totalPower(p)) each
DirectEarnedOn(s, user_id, p) ==
    Concat([j \in 1..Len(UserVotersOn(s, p)) |->
        IF UserVotersOn(s, p)[j].user_id = user_id
        THEN [t \in 1..Len(p.tributes) |->
                [k |-> p.tributes[t].denom,
                 v |-> DecMul(PostProtocol(s, p.tributes[t]),
                              DecDiv(calculate_voting_power(UserVotersOn(s, p)[j]).val,
                                     TotalPowerOn(s, p)))]]
        ELSE <<>>])

\* ... on all the proposals, accumulated per denom
DirectEarned(s, user_id) ==
    Accumulate(<<>>, Concat([i \in 1..Len(s.proposals) |->
                                DirectEarnedOn(s, user_id, s.proposals[i])]))

\* the users owning a user-controlled vessel that votes
DirectVoters(s) ==
    {VesselsInOrder(s)[i].user_id : i \in
        {j \in 1..Len(VesselsInOrder(s)) :
            IsUser(VesselsInOrder(s)[j]) /\ IsVoting(VesselsInOrder(s)[j])}}

\* every user-controlled voter is paid as DirectEarned says
DirectAsEarned(s, direct) ==
    direct = [u \in DirectVoters(s) |-> DirectEarned(s, u)]

HalfUpCents(x, n) ==
    /\ n \in Nat
    /\ n = 0 \/ DecCmp(DecFromInt(2 * n - 1), DecNorm(NatAdd(x.c, x.c), x.e + 2)) <= 0
    /\ DecCmp(DecNorm(NatAdd(x.c, x.c), x.e + 2), DecFromInt(2 * n + 1)) < 0

\* the dict r holds, under the keys of m, the roundings of the values of m
RoundedDict(m, r) ==
    /\ DOMAIN r = DOMAIN m
    /\ \A k \in DOMAIN m : HalfUpCents(m[k], r[k])

\* C12: in the Result, a user has an entry exactly when the direct or the
\* delegated rewards have one for them, and a denom under it exactly when
\* either has; the value is the direct reward plus the delegated reward,
\* both unrounded, rounded half-up to two decimals; and every value of
\* protocol_rewards and hydromancer_rewards is the accumulated value
\* rounded half-up to two decimals (half a cent goes up).
C12_AggregationRounding ==
    pc = "returned" =>
        /\ RoundedDict(protocol_rewards, result.protocol_rewards)
        /\ RoundedDict(hydromancer_rewards, result.hydromancer_rewards)
        /\ DOMAIN result.user_rewards
               = (DOMAIN user_direct_rewards) \cup (DOMAIN user_delegated_rewards)
        /\ \A u \in DOMAIN result.user_rewards :
              RoundedDict(
                  [d \in Denoms(user_direct_rewards, u)
                            \cup Denoms(user_delegated_rewards, u) |->
                      ExactAdd(Get(user_direct_rewards, u, d),
                               Get(user_delegated_rewards, u, d))],
                  result.user_rewards[u])

\* C12 witness: the Result shows 0.01 for a protocol reward of exactly half
\* a cent, and 0.01 for user "A", whose direct reward 0.004 and delegated
\* reward 0.003 would each round to 0.00; user "B" is in neither map
C12_Witness ==
    /\ pc = "returned"
    /\ protocol_rewards["USDC"] = DecLit(5, -3)
    /\ result.protocol_rewards["USDC"] = 1
    /\ "A" \in DOMAIN user_direct_rewards
    /\ "A" \in DOMAIN user_delegated_rewards
    /\ user_direct_rewards["A"]["USDC"] = DecLit(4, -3)
    /\ user_delegated_rewards["A"]["USDC"] = DecLit(3, -3)
    /\ result.user_rewards["A"]["USDC"] = 1
    /\ "B" \notin DOMAIN result.user_rewards

\* the cents a section of the Result shows under denom d, none if absent
CentsAt(m, d) == IF d \in DOMAIN m THEN m[d] ELSE 0

UserCentsAt(m, u, d) == IF u \in DOMAIN m THEN CentsAt(m[u], d) ELSE 0

\* every vote is cast by a vessel of user_id, and wherever hydromancer has
\* power user_id is eligible and nobody else is: the pool of each active
\* proposal goes to hydromancer and user_id
SplitWith(s, user_id) ==
    /\ \E i \in 1..Len(s.proposals) : IsActive(s, s.proposals[i])
    /\ \A j \in 1..Len(VesselsInOrder(s)) :
          IsVoting(VesselsInOrder(s)[j]) => VesselsInOrder(s)[j].user_id = user_id
    /\ \A i \in 1..Len(s.proposals) :
          HydromancerVotersOn(s, s.proposals[i]) # <<>> =>
              \A u \in 1..Len(s.users) :
                  DecIsZero(UserEligiblePower(s, UserIds(s)[u], s.proposals[i]))
                      <=> UserIds(s)[u] # user_id

\* amount x (1 - protocolRate) and amount x protocolRate, over the tributes
\* of denom d on the active proposals
ActivePool(s, d) ==
    DecMul(ExactSum(ActiveAmounts(s, d)), DecSub(DecOne, ProtocolRate(s)))

ActiveCommission(s, d) == DecMul(ExactSum(ActiveAmounts(s, d)), ProtocolRate(s))

TheVessel == scenario.users[1].vessels[1]

\* locked_amount x token_multiplier x duration_multiplier in thousandths,
\* with 1.3 = 13/10, 1.6 = 16/10 and 1.0, 1.25, 1.5 = 100/100, 125/100,
\* 150/100
PowerMills(v) ==
    v.locked_amount
        * (IF v.locked_denom = "dATOM" THEN 13 ELSE 16)
        * (IF v.lock_duration_rounds = 1 THEN 100
           ELSE IF v.lock_duration_rounds = 2 THEN 125 ELSE 150)

PowerAfter(v) == calculate_voting_power(v).val

\* the power of v is the product, whoever controls v and whatever it votes
\* for; it is 0 exactly when nothing is locked; and it grows with the
\* amount locked
PowerAsProduct(v) ==
    /\ \A c \in Controllers, p \in Votes :
          calculate_voting_power([v EXCEPT !.controlled_by = c,
                                           !.voted_proposal_id = p])
              = Return(DecLit(PowerMills(v), -3))
    /\ DecIsZero(PowerAfter(v)) <=> v.locked_amount = 0
    /\ Less(PowerAfter(v), PowerAfter([v EXCEPT !.locked_amount = @ + 1]))

\* a round more (up to 3), or stATOM for dATOM, gives more power
GrowsWithDurationAndToken(v) ==
    /\ v.lock_duration_rounds < 3 =>
          Less(PowerAfter(v), PowerAfter([v EXCEPT !.lock_duration_rounds = @ + 1]))
    /\ v.locked_denom = "dATOM" =>
          Less(PowerAfter(v), PowerAfter([v EXCEPT !.locked_denom = "stATOM"]))

\* C14 (as amended): for every vessel with locked_denom in {dATOM, stATOM}
\* and lock_duration_rounds in {1, 2, 3}, calculate_voting_power returns
\* locked_amount x token_multiplier x duration_multiplier (dATOM 1.3, stATOM
\* 1.6; 1 -> 1.0, 2 -> 1.25, 3 -> 1.5), whatever controlled_by and
\* voted_proposal_id are; the power is 0 exactly when locked_amount is 0,
\* strictly increasing in locked_amount, and, for locked_amount > 0,
\* strictly increasing in the duration and from dATOM to stATOM.
C14_VotingPower ==
    (pc # "voting_power" /\ IsValidVessel(TheVessel)) =>
        /\ pc = "returned"
        /\ result = DecLit(PowerMills(TheVessel), -3)
        /\ PowerAsProduct(TheVessel)
        /\ TheVessel.locked_amount > 0 => GrowsWithDurationAndToken(TheVessel)

\* C14 (as stated): the power of every such vessel, locked_amount 0
\* included, is strictly increasing in the duration and from dATOM to
\* stATOM.
C14_AsStated ==
    (pc = "returned" /\ IsValidVessel(TheVessel)) =>
        GrowsWithDurationAndToken(TheVessel)

\* C14 witness: calculate_voting_power returned 3 x 1.3 x 1.25 = 4.875 for a
\* hydromancer-controlled vessel that does not vote
C14_Witness ==
    /\ pc = "returned"
    /\ TheVessel = Vessel(1, 2, "dATOM", 3, "hydromancer", None)
    /\ result = DecLit(4875, -3)

\* joined, the calculators leave the Result the sequential call returns; and
\* one of them raises only where the sequential call raises
JoinedAsSequential ==
    /\ (pc # <<>> /\ pc[Len(pc)] = "returned") =>
          calculate_all_rewards(scenario) = Return(result)
    /\ (pc # <<>> /\ pc[Len(pc)] = "raised") =>
          calculate_all_rewards(scenario).exc # "none"

====
